---- MODULE Spec2Model ----
(***************************************************************************)
(* gosync: one-way directory synchronisation (pkg/syncer/syncer.go).       *)
(*                                                                         *)
(* One traversal goroutine (Syncer.Start) walks the source tree and hands  *)
(* every file to a pool of worker goroutines over an unbuffered channel.   *)
(* Each worker classifies the file (processFile) and copies it (copyFile). *)
(* The filesystem is one map from absolute paths to nodes; every system    *)
(* call of the code is one step of the model.                              *)
(***************************************************************************)
EXTENDS Integers, Sequences, FiniteSets, TLC

VARIABLES
    opts,        \* *SyncOptions held by the Syncer
    ignoreFile,  \* patterns of <source root>/.gosyncignore
    fs,          \* the filesystem: absolute path -> node
    fs0,         \* the filesystem when the current run began
    spc,         \* position of Syncer.Start
    spawned,     \* loop counter i of the worker-spawning loop
    wg,          \* s.wg counter
    closed,      \* s.fileOps has been closed
    todo,        \* entries WalkDir still has to visit, in visiting order
    offered,     \* the paths handed to s.fileOps and not yet received
    sourceFiles, \* the sourceFiles map of Start
    walkErr,     \* the value WalkDir returned
    ret,         \* the value Start returned
    wpc,         \* position of each worker goroutine
    job,         \* srcPath of each worker
    srcInfo,     \* srcInfo of each worker
    sent,        \* per source path: number of sends on s.fileOps
    outcome,     \* per source path: how its processing ended
    copyCalls,   \* source paths copyFile was invoked for in this run
    faults,      \* environment faults so far
    run,         \* which invocation of the program this is
    hist         \* facts about earlier runs

vars == <<opts, ignoreFile, fs, fs0, spc, spawned, wg, closed, todo, offered,
          sourceFiles, walkErr, ret, wpc, job, srcInfo, sent, outcome,
          copyCalls, faults, run, hist>>

----------------------------------------------------------------------------
(* Bounds *)

MaxWorkers == 2
MaxTime == 2
MaxFaults == 1
MaxRuns == 2

(* runtime.NumCPU() of the machine *)
NumCPU == 2

\* (a job queue with one slot for each CPU)
FileOpsBuffered == NumCPU

\* the capacity of s.fileOps: make(chan string)
FileOpsCapacity == 0

WorkerIds == 1..(IF MaxWorkers > NumCPU THEN MaxWorkers ELSE NumCPU)

----------------------------------------------------------------------------
(* Paths: sequences of components; the first component is a root. *)

SRoot == <<"S">>
DRoot == <<"D">>

\* relative paths of the universe, in the lexical order WalkDir visits them
RelOrder == << <<"a">>, <<"d">>, <<"d", "f">>, <<"s">> >>
RelPaths == {RelOrder[i] : i \in 1..Len(RelOrder)}
Dot == <<>>

Join(base, rel) == base \o rel
Rel(base, path) == SubSeq(path, Len(base) + 1, Len(path))
Dir(path) == SubSeq(path, 1, Len(path) - 1)
IsUnder(base, path) ==
    /\ Len(path) > Len(base)
    /\ SubSeq(path, 1, Len(base)) = base

AbsPaths == {SRoot, DRoot} \cup {Join(r, p) : r \in {SRoot, DRoot}, p \in RelPaths}

----------------------------------------------------------------------------
(* Nodes *)

Now == MaxTime + 1

None == [kind |-> "none", content |-> <<>>, mtime |-> 0, mode |-> "-"]
DirNode(m) == [kind |-> "dir", content |-> <<>>, mtime |-> 1, mode |-> m]
FileNode(c, t, m) == [kind |-> "file", content |-> c, mtime |-> t, mode |-> m]

NilInfo == [nil |-> TRUE, size |-> 0, mtime |-> 0, mode |-> "-", isDir |-> FALSE]
FileInfo(n) == [nil |-> FALSE, size |-> Len(n.content), mtime |-> n.mtime,
                mode |-> n.mode, isDir |-> n.kind = "dir"]

Exists(f, p) == f[p].kind # "none"
Readable(f, p) == f[p].kind = "dir" /\ f[p].mode # "0000"

----------------------------------------------------------------------------
(* NewSyncer: a worker count of 0 becomes runtime.NumCPU(); the channel is *)
(* made without a buffer.                                                  *)

\* (a NewSyncer that keeps a worker count of 0)
NewSyncerWorkersKept(w) == w

NewSyncerWorkers(w) == IF w = 0 THEN NumCPU ELSE w

WorkerInputs == (-1)..MaxWorkers

----------------------------------------------------------------------------
(* The states a run can start from *)

Times == 1..MaxTime

SrcFileA(t) == FileNode(<<1>>, t, "0600")
SrcFileF == FileNode(<<1, 1>>, MaxTime, "0600")

SrcTree(r, a, d, f) == [r |-> r, a |-> a, d |-> d, f |-> f]
DstTree(r, a, d, f, s) == [r |-> r, a |-> a, d |-> d, f |-> f, s |-> s]

DstAChoices ==
    {None, FileNode(<<1, 1>>, MaxTime, "0644")}
    \cup {FileNode(<<1>>, t, m) : t \in Times, m \in {"0600", "0644"}}
    \cup {FileNode(<<2>>, t, "0600") : t \in Times}
DstDChoices ==
    {<<None, None>>,
     <<DirNode("0755"), None>>,
     <<DirNode("0755"), FileNode(<<1, 1>>, MaxTime, "0600")>>,
     <<DirNode("0755"), FileNode(<<2, 2>>, 1, "0644")>>,
     <<FileNode(<<3>>, 1, "0644"), None>>}
DstSChoices == {None, FileNode(<<4>>, 1, "0644")}

NoDst == DstTree(None, None, None, None, None)

\* a source that is at most the file a, against every kind of destination a
FlatChoices ==
    {<<SrcTree(DirNode("0755"), a, None, None), dt>> :
        a \in {None} \cup {SrcFileA(t) : t \in Times},
        dt \in {NoDst} \cup
               {DstTree(DirNode("0755"), da, None, None, ds) :
                   da \in DstAChoices, ds \in DstSChoices}}

\* a source with the directory d, against every kind of destination d
TreeChoices ==
    {<<SrcTree(DirNode("0755"), a, DirNode(m), SrcFileF), dt>> :
        a \in {None, SrcFileA(1)}, m \in {"0755", "0000"},
        dt \in {NoDst} \cup
               {DstTree(DirNode("0755"), da, df[1], df[2], FileNode(<<4>>, 1, "0644")) :
                   da \in {None, FileNode(<<1>>, 1, "0600"),
                           FileNode(<<2, 2>>, 1, "0644")},
                   df \in DstDChoices}}

\* a source root that is missing or cannot be read
RootChoices ==
    {<<st, dt>> :
        st \in {SrcTree(None, None, None, None),
                SrcTree(DirNode("0000"), SrcFileA(1), None, None)},
        dt \in {NoDst,
                DstTree(DirNode("0755"), None, None, None, FileNode(<<4>>, 1, "0644"))}}

FsChoices == FlatChoices \cup TreeChoices \cup RootChoices

MkFs(st, dt) ==
    [p \in AbsPaths |->
        CASE p = SRoot -> st.r
          [] p = Join(SRoot, <<"a">>) -> st.a
          [] p = Join(SRoot, <<"d">>) -> st.d
          [] p = Join(SRoot, <<"d", "f">>) -> st.f
          [] p = DRoot -> dt.r
          [] p = Join(DRoot, <<"a">>) -> dt.a
          [] p = Join(DRoot, <<"d">>) -> dt.d
          [] p = Join(DRoot, <<"d", "f">>) -> dt.f
          [] p = Join(DRoot, <<"s">>) -> dt.s
          [] OTHER -> None]

NoHist == [clean |-> FALSE, copied |-> FALSE, srcChanged |-> FALSE]

InitRun ==
    /\ spc = "start"
    /\ spawned = 0
    /\ wg = 0
    /\ closed = FALSE
    /\ todo = <<>>
    /\ offered = <<>>
    /\ sourceFiles = {}
    /\ walkErr = "none"
    /\ ret = "none"
    /\ wpc = [w \in WorkerIds |-> "unstarted"]
    /\ job = [w \in WorkerIds |-> <<>>]
    /\ srcInfo = [w \in WorkerIds |-> NilInfo]
    /\ sent = [p \in AbsPaths |-> 0]
    /\ outcome = [p \in AbsPaths |-> "none"]
    /\ copyCalls = {}

InitOpts(w, dry, del, dest) ==
    opts = [SourcePath |-> SRoot, DestinationPath |-> dest,
            DryRun |-> dry, Delete |-> del, Workers |-> NewSyncerWorkers(w)]

InitRest ==
    /\ fs0 = fs
    /\ faults = 0
    /\ run = 1
    /\ hist = NoHist
    /\ InitRun

\* no .gosyncignore in the source root; Start never reads the delete option,
\* so it is varied against the flat sources only
Init ==
    /\ ignoreFile = {}
    /\ \E c \in FsChoices : fs = MkFs(c[1], c[2])
    /\ \E w \in WorkerInputs, dry \in BOOLEAN, del \in BOOLEAN,
          dest \in {SRoot, DRoot} :
          /\ del => ~Exists(fs, Join(SRoot, <<"d">>))
          /\ InitOpts(w, dry, del, dest)
    /\ InitRest

\* a .gosyncignore in the source root that lists the directory d
InitIgnore ==
    /\ \E w \in WorkerInputs, dry \in BOOLEAN : InitOpts(w, dry, FALSE, DRoot)
    /\ ignoreFile = {"d/"}
    /\ \E c \in TreeChoices : fs = MkFs(c[1], c[2])
    /\ InitRest

\* a source of three files, two of them in the root, and no destination
SrcFileS == FileNode(<<2>>, 1, "0644")

InitQueue ==
    /\ \E w \in WorkerInputs, dry \in BOOLEAN : InitOpts(w, dry, FALSE, DRoot)
    /\ ignoreFile = {}
    /\ fs = [MkFs(SrcTree(DirNode("0755"), SrcFileA(1), DirNode("0755"),
                          SrcFileF), NoDst)
               EXCEPT ![Join(SRoot, <<"s">>)] = SrcFileS]
    /\ InitRest

----------------------------------------------------------------------------
(* Syncer.Start *)

\* the entries os.ReadDir lists for a directory, sorted by name
RECURSIVE SelectOrder(_, _, _)
SelectOrder(f, dir, i) ==
    IF i > Len(RelOrder) THEN <<>>
    ELSE LET p == Join(SRoot, RelOrder[i]) IN
         (IF Dir(p) = dir /\ Exists(f, p)
          THEN <<p>> ELSE <<>>) \o SelectOrder(f, dir, i + 1)

ReadDir(f, dir) == IF Readable(f, dir) THEN SelectOrder(f, dir, 1) ELSE <<>>

\* the WalkDirFunc of Start: what it returns for an entry (d, err)
\* (every return statement of the callback returns nil)
WalkFnResult(relPath, isDir, err) == "nil"

\* (a callback that records the root as well)
WalkFnSeenRoot(seen, relPath, err) ==
    IF err THEN seen ELSE seen \cup {relPath}

\* what the callback records in sourceFiles for an entry
WalkFnSeen(seen, relPath, err) ==
    IF err \/ relPath = Dot THEN seen ELSE seen \cup {relPath}

\* (a callback that sends directories as well)
WalkFnSendsDirs(relPath, isDir, err) == ~err /\ relPath # Dot

\* whether the callback sends the entry on s.fileOps
WalkFnSends(relPath, isDir, err) == ~err /\ relPath # Dot /\ ~isDir

\* (a Start without the check of the two paths)
SamePathsUnchecked(o) == FALSE

\* the check of the two configured paths at the head of Start
SamePaths(o) == o.SourcePath = o.DestinationPath

Running == spc \notin {"returned", "crashed"}

StartCheck ==
    /\ spc = "start"
    /\ IF SamePaths(opts)
       THEN /\ spc' = "returned"
            /\ ret' = "err"
       ELSE /\ spc' = "spawn"
            /\ ret' = ret
    /\ UNCHANGED <<opts, ignoreFile, fs, fs0, spawned, wg, closed, todo,
                   offered, sourceFiles, walkErr, wpc, job, srcInfo, sent,
                   outcome, copyCalls, faults, run, hist>>

StartSpawn ==
    /\ spc = "spawn"
    /\ IF spawned < opts.Workers
       THEN /\ wg' = wg + 1
            /\ wpc' = [wpc EXCEPT ![spawned + 1] = "recv"]
            /\ spawned' = spawned + 1
            /\ spc' = spc
       ELSE /\ spc' = "walkroot"
            /\ UNCHANGED <<wg, wpc, spawned>>
    /\ UNCHANGED <<opts, ignoreFile, fs, fs0, closed, todo, offered,
                   sourceFiles, walkErr, ret, job, srcInfo, sent, outcome,
                   copyCalls, faults, run, hist>>

\* filepath.WalkDir on the root: Lstat, the callback on the root, ReadDir
WalkRoot ==
    /\ spc = "walkroot"
    /\ LET root == opts.SourcePath
           lstatErr == ~Exists(fs, root)
           res == WalkFnResult(Rel(root, root), TRUE, lstatErr)
       IN IF lstatErr
          THEN /\ walkErr' = res
               /\ spc' = "close"
               /\ todo' = <<>>
               /\ sourceFiles' = WalkFnSeen(sourceFiles, Rel(root, root), TRUE)
          ELSE /\ sourceFiles' = WalkFnSeen(sourceFiles, Rel(root, root), FALSE)
               /\ IF res # "nil"
                  THEN /\ walkErr' = res
                       /\ spc' = "close"
                       /\ todo' = <<>>
                  ELSE IF ~Readable(fs, root) /\
                          WalkFnResult(Rel(root, root), TRUE, TRUE) # "nil"
                  THEN /\ walkErr' = WalkFnResult(Rel(root, root), TRUE, TRUE)
                       /\ spc' = "close"
                       /\ todo' = <<>>
                  ELSE /\ walkErr' = walkErr
                       /\ spc' = "walk"
                       /\ todo' = ReadDir(fs, root)
    /\ UNCHANGED <<opts, ignoreFile, fs, fs0, spawned, wg, closed, offered,
                   ret, wpc, job, srcInfo, sent, outcome, copyCalls, faults,
                   run, hist>>

\* one entry of the walk: the callback, then ReadDir if it is a directory
WalkEntry ==
    /\ spc = "walk"
    /\ todo # <<>>
    /\ LET path == Head(todo)
           relPath == Rel(opts.SourcePath, path)
           isDir == fs[path].kind = "dir"
           res == WalkFnResult(relPath, isDir, FALSE)
       IN /\ sourceFiles' = WalkFnSeen(sourceFiles, relPath, FALSE)
          /\ IF WalkFnSends(relPath, isDir, FALSE)
             THEN /\ spc' = IF Len(offered) >= FileOpsCapacity
                            THEN "send" ELSE spc
                  /\ offered' = Append(offered, path)
                  /\ todo' = Tail(todo)
                  /\ walkErr' = walkErr
             ELSE IF res # "nil"
             THEN /\ spc' = "close"
                  /\ walkErr' = res
                  /\ todo' = <<>>
                  /\ offered' = offered
             ELSE /\ spc' = spc
                  /\ offered' = offered
                  /\ IF isDir /\ ~Readable(fs, path) /\
                        WalkFnResult(relPath, isDir, TRUE) # "nil"
                     THEN /\ walkErr' = WalkFnResult(relPath, isDir, TRUE)
                          /\ todo' = <<>>
                     ELSE /\ walkErr' = walkErr
                          /\ todo' = (IF isDir THEN ReadDir(fs, path) ELSE <<>>)
                                     \o Tail(todo)
    /\ UNCHANGED <<opts, ignoreFile, fs, fs0, spawned, wg, closed, ret, wpc,
                   job, srcInfo, sent, outcome, copyCalls, faults, run, hist>>

\* WalkDir returns
WalkDone ==
    /\ spc = "walk"
    /\ todo = <<>>
    /\ walkErr' = IF walkErr = "none" THEN "nil" ELSE walkErr
    /\ spc' = "close"
    /\ UNCHANGED <<opts, ignoreFile, fs, fs0, spawned, wg, closed, todo,
                   offered, sourceFiles, ret, wpc, job, srcInfo, sent, outcome,
                   copyCalls, faults, run, hist>>

\* close(s.fileOps)
StartClose ==
    /\ spc = "close"
    /\ closed' = TRUE
    /\ spc' = "wait"
    /\ UNCHANGED <<opts, ignoreFile, fs, fs0, spawned, wg, todo, offered,
                   sourceFiles, walkErr, ret, wpc, job, srcInfo, sent, outcome,
                   copyCalls, faults, run, hist>>

\* (a Start that does not wait for its workers)
WaitReturnsAtOnce(n) == TRUE

\* s.wg.Wait() returns when the counter is zero
WaitReturns(n) == n = 0

StartWait ==
    /\ spc = "wait"
    /\ WaitReturns(wg)
    /\ spc' = "joined"
    /\ UNCHANGED <<opts, ignoreFile, fs, fs0, spawned, wg, closed, todo,
                   offered, sourceFiles, walkErr, ret, wpc, job, srcInfo, sent,
                   outcome, copyCalls, faults, run, hist>>

\* (a Start that removes every destination entry the walk did not record,
\* whatever the delete option says)
AfterJoinDeleting(f, o, seen) ==
    [p \in AbsPaths |->
        IF IsUnder(o.DestinationPath, p) /\ Rel(o.DestinationPath, p) \notin seen
        THEN None ELSE f[p]]

\* what Start does to the filesystem between the join and its return: the
\* deletion of extra files is a TODO, nothing is executed
AfterJoin(f, o, seen) == f

StartReturn ==
    /\ spc = "joined"
    /\ fs' = AfterJoin(fs, opts, sourceFiles)
    /\ ret' = IF walkErr = "nil" THEN "nil" ELSE "err"
    /\ spc' = "returned"
    /\ UNCHANGED <<opts, ignoreFile, fs0, spawned, wg, closed, todo, offered,
                   sourceFiles, walkErr, wpc, job, srcInfo, sent, outcome,
                   copyCalls, faults, run, hist>>

----------------------------------------------------------------------------
(* Syncer.worker, processFile, copyFile *)

\* (a processFile that compares the source file with itself)
DestinationPathIsSource(w) == job[w]

DestinationPath(w) ==
    Join(opts.DestinationPath, Rel(opts.SourcePath, job[w]))

\* (a comparison that also counts equal times as later)
NotBefore(t, u) == t >= u

\* srcInfo.ModTime().After(destInfo.ModTime())
After(t, u) == t > u

\* (an up-to-date test that forgets the sizes)
UpToDateByTime(si, di) == ~After(si.mtime, di.mtime)

\* the up-to-date test of processFile
UpToDate(si, di) == ~After(si.mtime, di.mtime) /\ si.size = di.size

\* the proper ancestors of a path, the root first
Ancestors(path) == [i \in 1..(Len(path) - 1) |-> SubSeq(path, 1, i)]

\* (a stat that reports a file in the place of a directory as "not exist")
NotADirectoryIgnored(f, path) == FALSE

\* a component of the path that must be a directory is some other file
NotADirectory(f, path) ==
    \E i \in 1..(Len(path) - 1) : f[Ancestors(path)[i]].kind = "file"

\* os.MkdirAll(dir): every missing directory down to dir is created
MkdirAll(f, dir) ==
    [p \in AbsPaths |->
        IF (p = dir \/ IsUnder(p, dir)) /\ ~Exists(f, p)
        THEN [kind |-> "dir", content |-> <<>>, mtime |-> Now, mode |-> "0755"]
        ELSE f[p]]

\* os.Create(path): truncate an existing file, or make a new one
Create(f, path) ==
    [f EXCEPT ![path] =
        IF Exists(f, path)
        THEN [f[path] EXCEPT !.content = <<>>, !.mtime = Now]
        ELSE FileNode(<<>>, Now, "0644")]

\* io.Copy(destinationFile, srcFile)
CopyBytes(f, from, to) ==
    [f EXCEPT ![to] = [f[to] EXCEPT !.content = f[from].content, !.mtime = Now]]

\* (the two time arguments of os.Chtimes swapped)
ChtimesSwapped(f, path, si) == [f EXCEPT ![path] = [f[path] EXCEPT !.mtime = Now]]

\* os.Chtimes(path, time.Now(), srcInfo.ModTime())
Chtimes(f, path, si) == [f EXCEPT ![path] = [f[path] EXCEPT !.mtime = si.mtime]]

\* os.Chmod(path, srcInfo.Mode())
Chmod(f, path, si) == [f EXCEPT ![path] = [f[path] EXCEPT !.mode = si.mode]]

\* (a copyFile that does not test the dry-run flag)
CopyFileEntryNoDryRun(o) == "mkdir"

\* copyFile up to its first system call: the dry-run test comes first
CopyFileEntry(o) == IF o.DryRun THEN "dryrun" ELSE "mkdir"

\* processFile returns to the range loop of the worker
Finish(w, how) ==
    /\ outcome' = [outcome EXCEPT ![job[w]] = how]
    /\ wpc' = [wpc EXCEPT ![w] = "recv"]
    /\ job' = [job EXCEPT ![w] = <<>>]
    /\ srcInfo' = [srcInfo EXCEPT ![w] = NilInfo]

\* (a channel that hands the same path to every receiver)
WorkerRecvAgain(w) ==
    /\ wpc[w] = "recv"
    /\ Running
    /\ offered # <<>>
    /\ job' = [job EXCEPT ![w] = Head(offered)]
    /\ sent' = [sent EXCEPT ![Head(offered)] = @ + 1]
    /\ outcome' = [outcome EXCEPT ![Head(offered)] = "pending"]
    /\ wpc' = [wpc EXCEPT ![w] = "statSrc"]
    /\ UNCHANGED <<opts, ignoreFile, fs, fs0, spc, spawned, wg, closed, todo,
                   offered, sourceFiles, walkErr, ret, srcInfo, copyCalls,
                   faults, run, hist>>

\* (a copyFile that goes on after a failed io.Copy)
ReturnsOnErrorButCopy(stage) == stage \in {"mkdir", "open", "create"}

\* the steps of copyFile whose error makes it return at once
ReturnsOnError(stage) == stage \in {"mkdir", "open", "create", "copy"}

\* a step of copyFile failed: the error is logged, and copyFile returns
Failed(w, stage, how, next) ==
    IF ReturnsOnError(stage)
    THEN Finish(w, how)
    ELSE /\ outcome' = [outcome EXCEPT ![job[w]] = how]
         /\ wpc' = [wpc EXCEPT ![w] = next]
         /\ UNCHANGED <<job, srcInfo>>

\* a worker receives the next path of s.fileOps; a blocked send completes
WorkerRecv(w) ==
    /\ wpc[w] = "recv"
    /\ Running
    /\ offered # <<>>
    /\ job' = [job EXCEPT ![w] = Head(offered)]
    /\ sent' = [sent EXCEPT ![Head(offered)] = @ + 1]
    /\ outcome' = [outcome EXCEPT ![Head(offered)] = "pending"]
    /\ wpc' = [wpc EXCEPT ![w] = "statSrc"]
    /\ offered' = Tail(offered)
    /\ spc' = IF spc = "send" THEN "walk" ELSE spc
    /\ UNCHANGED <<opts, ignoreFile, fs, fs0, spawned, wg, closed, todo,
                   sourceFiles, walkErr, ret, srcInfo, copyCalls, faults, run,
                   hist>>

\* the range loop ends on the closed channel; the deferred wg.Done() runs
WorkerExit(w) ==
    /\ wpc[w] = "recv"
    /\ closed
    /\ offered = <<>>
    /\ Running
    /\ wg' = wg - 1
    /\ wpc' = [wpc EXCEPT ![w] = "exited"]
    /\ UNCHANGED <<opts, ignoreFile, fs, fs0, spc, spawned, closed, todo,
                   offered, sourceFiles, walkErr, ret, job, srcInfo, sent,
                   outcome, copyCalls, faults, run, hist>>

\* os.Stat(srcPath); an error is logged and processing goes on
ProcStatSrc(w) ==
    /\ wpc[w] = "statSrc"
    /\ Running
    /\ srcInfo' = [srcInfo EXCEPT ![w] =
                      IF Exists(fs, job[w]) THEN FileInfo(fs[job[w]]) ELSE NilInfo]
    /\ wpc' = [wpc EXCEPT ![w] = "statDst"]
    /\ UNCHANGED <<opts, ignoreFile, fs, fs0, spc, spawned, wg, closed, todo,
                   offered, sourceFiles, walkErr, ret, job, sent, outcome,
                   copyCalls, faults, run, hist>>

\* the worker moves on inside processFile / copyFile
Goto(w, pc) ==
    /\ wpc' = [wpc EXCEPT ![w] = pc]
    /\ UNCHANGED <<outcome, job, srcInfo>>

\* a system call that the environment may make fail
Fault(fault) ==
    /\ fault => faults < MaxFaults
    /\ faults' = IF fault THEN faults + 1 ELSE faults

\* os.Stat(destinationPath) and the decision of processFile
\* fault: the stat fails with an error other than "not exist"
ProcStatDst(w, fault) ==
    /\ wpc[w] = "statDst"
    /\ Running
    /\ Fault(fault)
    /\ LET dp == DestinationPath(w) IN
       IF fault \/ NotADirectory(fs, dp)
       THEN /\ Finish(w, "statDstErr")
            /\ UNCHANGED <<spc, copyCalls>>
       ELSE IF Exists(fs, dp) /\ srcInfo[w].nil
       THEN \* srcInfo.ModTime() on a nil FileInfo: the process panics
            /\ spc' = "crashed"
            /\ UNCHANGED <<outcome, wpc, job, srcInfo, copyCalls>>
       ELSE IF Exists(fs, dp) /\ UpToDate(srcInfo[w], FileInfo(fs[dp]))
       THEN /\ Finish(w, "skip")
            /\ UNCHANGED <<spc, copyCalls>>
       ELSE /\ copyCalls' = copyCalls \cup {job[w]}
            /\ spc' = spc
            /\ IF CopyFileEntry(opts) = "dryrun"
               THEN Finish(w, "dryrun")
               ELSE Goto(w, "mkdir")
    /\ UNCHANGED <<opts, ignoreFile, fs, fs0, spawned, wg, closed, todo,
                   offered, sourceFiles, walkErr, ret, sent, run, hist>>

\* os.MkdirAll(filepath.Dir(destinationPath), os.ModePerm)
CopyMkdirAll(w, fault) ==
    /\ wpc[w] = "mkdir"
    /\ Running
    /\ Fault(fault)
    /\ IF fault \/ NotADirectory(fs, DestinationPath(w))
       THEN /\ Failed(w, "mkdir", "mkdirErr", "open")
            /\ fs' = fs
       ELSE /\ fs' = MkdirAll(fs, Dir(DestinationPath(w)))
            /\ Goto(w, "open")
    /\ UNCHANGED <<opts, ignoreFile, fs0, spc, spawned, wg, closed, todo,
                   offered, sourceFiles, walkErr, ret, sent, copyCalls, run,
                   hist>>

\* os.Open(srcPath)
CopyOpen(w) ==
    /\ wpc[w] = "open"
    /\ Running
    /\ IF ~Exists(fs, job[w])
       THEN Failed(w, "open", "openErr", "create")
       ELSE Goto(w, "create")
    /\ UNCHANGED <<opts, ignoreFile, fs, fs0, spc, spawned, wg, closed, todo,
                   offered, sourceFiles, walkErr, ret, sent, copyCalls, faults,
                   run, hist>>

\* os.Create(destinationPath)
CopyCreate(w, fault) ==
    /\ wpc[w] = "create"
    /\ Running
    /\ Fault(fault)
    /\ IF fault \/ fs[DestinationPath(w)].kind = "dir"
       THEN /\ Failed(w, "create", "createErr", "copy")
            /\ fs' = fs
       ELSE /\ fs' = Create(fs, DestinationPath(w))
            /\ Goto(w, "copy")
    /\ UNCHANGED <<opts, ignoreFile, fs0, spc, spawned, wg, closed, todo,
                   offered, sourceFiles, walkErr, ret, sent, copyCalls, run,
                   hist>>

\* io.Copy and destinationFile.Sync()
CopyContents(w, fault) ==
    /\ wpc[w] = "copy"
    /\ Running
    /\ Fault(fault)
    /\ IF fault
       THEN /\ Failed(w, "copy", "copyErr", "chtimes")
            /\ fs' = fs
       ELSE /\ fs' = CopyBytes(fs, job[w], DestinationPath(w))
            /\ Goto(w, "chtimes")
    /\ UNCHANGED <<opts, ignoreFile, fs0, spc, spawned, wg, closed, todo,
                   offered, sourceFiles, walkErr, ret, sent, copyCalls, run,
                   hist>>

\* os.Chtimes; a failure is logged as a warning and the copy goes on
CopyChtimes(w, fault) ==
    /\ wpc[w] = "chtimes"
    /\ Running
    /\ Fault(fault)
    /\ IF srcInfo[w].nil
       THEN \* srcInfo.ModTime() on a nil FileInfo: the process panics
            /\ spc' = "crashed"
            /\ UNCHANGED <<fs, wpc, outcome, job, srcInfo>>
       ELSE /\ spc' = spc
            /\ fs' = IF fault THEN fs
                     ELSE Chtimes(fs, DestinationPath(w), srcInfo[w])
            /\ Goto(w, IF fault THEN "chmodW" ELSE "chmod")
    /\ UNCHANGED <<opts, ignoreFile, fs0, spawned, wg, closed, todo, offered,
                   sourceFiles, walkErr, ret, sent, copyCalls, run, hist>>

\* os.Chmod; a failure is logged as a warning; copyFile returns
\* (at "chmodW" the Chtimes before it had failed)
CopyChmod(w, fault) ==
    /\ wpc[w] \in {"chmod", "chmodW"}
    /\ Running
    /\ Fault(fault)
    /\ fs' = IF fault THEN fs ELSE Chmod(fs, DestinationPath(w), srcInfo[w])
    /\ Finish(w, IF fault \/ wpc[w] = "chmodW" THEN "copiedWarn" ELSE "copied")
    /\ UNCHANGED <<opts, ignoreFile, fs0, spc, spawned, wg, closed, todo,
                   offered, sourceFiles, walkErr, ret, sent, copyCalls, run,
                   hist>>

----------------------------------------------------------------------------
(* The environment *)

\* a source file disappears after the walk found it and before it is opened
SrcVanish(w) ==
    /\ wpc[w] \in {"statSrc", "statDst", "mkdir", "open"}
    /\ Running
    /\ faults < MaxFaults
    /\ Exists(fs, job[w])
    /\ faults' = faults + 1
    /\ fs' = [fs EXCEPT ![job[w]] = None]
    /\ hist' = [hist EXCEPT !.srcChanged = TRUE]
    /\ UNCHANGED <<opts, ignoreFile, fs0, spc, spawned, wg, closed, todo,
                   offered, sourceFiles, walkErr, ret, wpc, job, srcInfo, sent,
                   outcome, copyCalls, run>>

\* the program is run again with the same options
RunAgain ==
    /\ spc = "returned"
    /\ run < MaxRuns
    /\ run' = run + 1
    /\ hist' = [hist EXCEPT
                   !.clean = /\ ret = "nil"
                             /\ \A p \in AbsPaths :
                                   outcome[p] \in {"none", "skip", "copied"},
                   !.copied = \E p \in AbsPaths : outcome[p] = "copied"]
    /\ fs0' = fs
    /\ faults' = faults
    /\ spc' = "start"
    /\ spawned' = 0
    /\ wg' = 0
    /\ closed' = FALSE
    /\ todo' = <<>>
    /\ offered' = <<>>
    /\ sourceFiles' = {}
    /\ walkErr' = "none"
    /\ ret' = "none"
    /\ wpc' = [w \in WorkerIds |-> "unstarted"]
    /\ job' = [w \in WorkerIds |-> <<>>]
    /\ srcInfo' = [w \in WorkerIds |-> NilInfo]
    /\ sent' = [p \in AbsPaths |-> 0]
    /\ outcome' = [p \in AbsPaths |-> "none"]
    /\ copyCalls' = {}
    /\ UNCHANGED <<opts, ignoreFile, fs>>

Next ==
    \/ StartCheck
    \/ StartSpawn
    \/ WalkRoot
    \/ WalkEntry
    \/ WalkDone
    \/ StartClose
    \/ StartWait
    \/ StartReturn
    \/ \E w \in WorkerIds : WorkerRecv(w)
    \/ \E w \in WorkerIds : WorkerExit(w)
    \/ \E w \in WorkerIds : ProcStatSrc(w)
    \/ \E w \in WorkerIds, fault \in BOOLEAN : ProcStatDst(w, fault)
    \/ \E w \in WorkerIds, fault \in BOOLEAN : CopyMkdirAll(w, fault)
    \/ \E w \in WorkerIds : CopyOpen(w)
    \/ \E w \in WorkerIds, fault \in BOOLEAN : CopyCreate(w, fault)
    \/ \E w \in WorkerIds, fault \in BOOLEAN : CopyContents(w, fault)
    \/ \E w \in WorkerIds, fault \in BOOLEAN : CopyChtimes(w, fault)
    \/ \E w \in WorkerIds, fault \in BOOLEAN : CopyChmod(w, fault)
    \/ \E w \in WorkerIds : SrcVanish(w)
    \/ RunAgain

Spec == Init /\ [][Next]_vars

SpecIgnore == InitIgnore /\ [][Next]_vars

SpecQueue == InitQueue /\ [][Next]_vars

----------------------------------------------------------------------------
(* Properties *)

SrcOf(rel) == Join(opts.SourcePath, rel)
DstOf(rel) == Join(opts.DestinationPath, rel)

Returned == spc = "returned"
ConfigError == opts.SourcePath = opts.DestinationPath

Processed(p) == outcome[p] \notin {"none", "pending"}
InsideProcessFile(w) == wpc[w] \notin {"unstarted", "recv", "exited"}

\* the files the source tree holds
SourceFiles == {rel \in RelPaths : fs[SrcOf(rel)].kind = "file"}

\* no traversal error was logged: the root and every directory could be read
WalkClean ==
    /\ Readable(fs, opts.SourcePath)
    /\ \A rel \in RelPaths :
          fs[SrcOf(rel)].kind = "dir" => Readable(fs, SrcOf(rel))

\* no per-file error or warning was logged
NoFileError == \A p \in AbsPaths : outcome[p] \in {"none", "skip", "copied"}

SameAsSource(rel) ==
    /\ fs[DstOf(rel)].kind = "file"
    /\ fs[DstOf(rel)].content = fs[SrcOf(rel)].content
    /\ fs[DstOf(rel)].mtime = fs[SrcOf(rel)].mtime
    /\ fs[DstOf(rel)].mode = fs[SrcOf(rel)].mode

\* C1: once Start is past close(s.fileOps) and s.wg.Wait(), every path that was
\* sent on the channel has been processed to the end and no worker is inside
\* processFile or copyFile (every started worker has exited).
C1_Barrier ==
    (spc = "joined" \/ (Returned /\ ~ConfigError)) =>
        /\ \A p \in AbsPaths : sent[p] > 0 => Processed(p)
        /\ \A w \in WorkerIds : ~InsideProcessFile(w) /\ wpc[w] # "recv"
        /\ offered = <<>>

C1_Witness ==
    /\ spc = "joined"
    /\ opts.Workers = 2
    /\ outcome[SrcOf(<<"a">>)] = "copied"
    /\ outcome[SrcOf(<<"d", "f">>)] = "copied"

\* C2 as stated: after a successful run without dry-run and without any logged
\* error, every source file has a destination file with the same content,
\* modification time and permission bits, whatever the destination held.
C2_Original ==
    (Returned /\ ret = "nil" /\ ~opts.DryRun /\ NoFileError /\ WalkClean) =>
        \A rel \in SourceFiles : SameAsSource(rel)

\* C2 amended: after such a run every source file was either copied, and then
\* its destination has the source's content, modification time and permission
\* bits, or classified up to date, and then its destination is the file the
\* destination held before, of the source's size and not older than the source.
C2_Completeness ==
    (Returned /\ ret = "nil" /\ ~opts.DryRun /\ NoFileError /\ WalkClean) =>
        \A rel \in SourceFiles :
            \/ /\ outcome[SrcOf(rel)] = "copied"
               /\ SameAsSource(rel)
            \/ /\ outcome[SrcOf(rel)] = "skip"
               /\ fs[DstOf(rel)] = fs0[DstOf(rel)]
               /\ fs[DstOf(rel)].kind = "file"
               /\ Len(fs[DstOf(rel)].content) = Len(fs[SrcOf(rel)].content)
               /\ fs[DstOf(rel)].mtime >= fs[SrcOf(rel)].mtime

C2_Witness ==
    /\ Returned /\ ret = "nil" /\ ~opts.DryRun /\ NoFileError /\ WalkClean
    /\ run = 1
    /\ outcome[SrcOf(<<"a">>)] = "copied"
    /\ fs0[DstOf(<<"a">>)].kind = "file"
    /\ outcome[SrcOf(<<"d", "f">>)] = "copied"
    /\ fs0[DstOf(<<"d">>)].kind = "none"

\* C3: in a second run that follows a first run without dry-run and without
\* logged file errors, the source being unchanged, copyFile is never invoked
\* and every file whose destination can be examined is classified up to date;
\* when that run ends without a fault every source file was skipped.
C3_Idempotence ==
    (run = 2 /\ hist.clean /\ ~hist.srcChanged /\ ~opts.DryRun /\ WalkClean) =>
        /\ copyCalls = {}
        /\ \A p \in AbsPaths :
              \/ outcome[p] \in {"none", "pending", "skip"}
              \/ outcome[p] = "statDstErr" /\ faults > 0
        /\ (Returned /\ faults = 0) =>
              \A rel \in SourceFiles : outcome[SrcOf(rel)] = "skip"

C3_Witness ==
    /\ run = 2 /\ hist.clean /\ hist.copied /\ ~hist.srcChanged /\ ~opts.DryRun
    /\ Returned
    /\ outcome[SrcOf(<<"a">>)] = "skip"
    /\ outcome[SrcOf(<<"d", "f">>)] = "skip"

\* C4 as stated: with the delete option on and dry-run off, after Start returns
\* no destination path remains that the source walk did not record, and the
\* destination root is still there.
C4_DeletionPropagation ==
    (Returned /\ ret = "nil" /\ opts.Delete /\ ~opts.DryRun) =>
        /\ \A rel \in RelPaths :
              rel \notin sourceFiles => ~Exists(fs, DstOf(rel))
        /\ Exists(fs0, opts.DestinationPath) => Exists(fs, opts.DestinationPath)

\* C5: with the delete option off, a destination path without a source path of
\* the same relative name is never touched: it keeps the node it had when the
\* run began.
C5_ExtraUntouched ==
    ~opts.Delete =>
        \A rel \in RelPaths :
            (Exists(fs0, DstOf(rel)) /\ ~Exists(fs0, SrcOf(rel)))
                => fs[DstOf(rel)] = fs0[DstOf(rel)]

C5_Witness ==
    /\ ~opts.Delete /\ ~opts.DryRun /\ Returned /\ ret = "nil"
    /\ Exists(fs0, DstOf(<<"s">>))
    /\ Exists(fs0, DstOf(<<"a">>)) /\ ~Exists(fs0, SrcOf(<<"a">>))
    /\ outcome[SrcOf(<<"d", "f">>)] = "copied"

\* a relative path matched by a pattern of the ignore file: "d/" matches the
\* directory d and, by pruning, everything below it
Matched(rel) == "d/" \in ignoreFile /\ Len(rel) >= 1 /\ rel[1] = "d"

\* C6 as stated: a path matched by the ignore file is not recorded, not sent
\* to the workers, and nothing is created or changed for it in the destination.
C6_IgnoreRespected ==
    \A rel \in RelPaths :
        Matched(rel) =>
            /\ rel \notin sourceFiles
            /\ sent[SrcOf(rel)] = 0
            /\ fs[DstOf(rel)] = fs0[DstOf(rel)]

\* C7: with dry-run on, the run changes nothing in the filesystem: every path
\* keeps the node it had when the run began (a source file the environment
\* removed aside).
C7_DryRunPurity ==
    opts.DryRun =>
        \A p \in AbsPaths :
            \/ fs[p] = fs0[p]
            \/ IsUnder(SRoot, p) /\ hist.srcChanged /\ fs[p] = None

C7_Witness ==
    /\ opts.DryRun /\ Returned /\ ret = "nil"
    /\ outcome[SrcOf(<<"a">>)] = "dryrun"
    /\ outcome[SrcOf(<<"d", "f">>)] = "dryrun"
    /\ ~Exists(fs, DstOf(<<"d">>))

\* C8: when the two configured paths are equal, Start returns an error at once:
\* no worker is started, the walk does nothing, nothing is sent and the
\* filesystem is unchanged.
C8_ConfigError ==
    ConfigError =>
        /\ spc \in {"start", "returned"}
        /\ Returned => ret = "err"
        /\ spawned = 0 /\ wg = 0 /\ ~closed
        /\ \A w \in WorkerIds : wpc[w] = "unstarted"
        /\ todo = <<>> /\ offered = <<>> /\ sourceFiles = {}
        /\ \A p \in AbsPaths : sent[p] = 0 /\ outcome[p] = "none"
        /\ fs = fs0

C8_Witness ==
    /\ ConfigError /\ Returned /\ ret = "err"
    /\ fs[Join(SRoot, <<"a">>)].kind = "file"

\* the copy rule as the specification words it
NeedsCopy(si, dnode) ==
    \/ dnode.kind = "none"
    \/ ~(dnode.mtime >= si.mtime /\ Len(dnode.content) = si.size)

\* C9: when processFile decides on a file whose source and destination could be
\* examined, it invokes copyFile exactly when the destination is absent or is
\* not both at least as new as the source and of the source's size.
C9_Classification ==
    [][\A w \in WorkerIds :
          (/\ wpc[w] = "statDst" /\ wpc'[w] # "statDst"
           /\ ~srcInfo[w].nil
           /\ outcome'[job[w]] # "statDstErr"
           /\ spc' # "crashed")
          => ((job[w] \in copyCalls') <=>
                 NeedsCopy(srcInfo[w], fs[DestinationPath(w)]))]_vars

\* a file was copied again although the destination had the same size, the
\* source being newer, and another with equal time and size was skipped
C9_Witness ==
    /\ \E rel \in RelPaths :
          /\ SrcOf(rel) \in copyCalls
          /\ fs0[DstOf(rel)].kind = "file"
          /\ Len(fs0[DstOf(rel)].content) = Len(fs0[SrcOf(rel)].content)
          /\ fs0[DstOf(rel)].mtime < fs0[SrcOf(rel)].mtime
    /\ \E rel \in RelPaths :
          /\ outcome[SrcOf(rel)] = "skip"
          /\ fs0[DstOf(rel)].mtime = fs0[SrcOf(rel)].mtime

\* C10 as stated: Start returns an error exactly when the walk of the source
\* root itself fails (the root is missing or cannot be read); an unreadable
\* directory below the root is only logged and the run succeeds.
C10_RootFailure ==
    (Returned /\ ~ConfigError) =>
        (ret = "err" <=> ~Readable(fs, opts.SourcePath))

----------------------------------------------------------------------------
(* Errors inside copyFile *)

CopyErrors == {"mkdirErr", "openErr", "createErr", "copyErr"}

\* the files the walk recorded
Discovered == {rel \in sourceFiles : fs0[SrcOf(rel)].kind = "file"}

\* C11: a failure of MkdirAll, Open, Create or io.Copy ends the copy of that one
\* file at that step: no worker goes on with the file, a failure before or in
\* Create leaves the destination file as it was, a failure of io.Copy leaves the
\* created file without Chtimes and Chmod; and when Start has returned, it
\* returned nil, every file the walk found has been processed and every worker
\* that was started has exited
C11_CopyFailureIsolated ==
    /\ \A rel \in RelPaths :
          LET p == SrcOf(rel)
              d == DstOf(rel)
          IN /\ outcome[p] \in CopyErrors => \A w \in WorkerIds : job[w] # p
             /\ outcome[p] \in {"mkdirErr", "openErr", "createErr"} =>
                    fs[d] = fs0[d]
             /\ outcome[p] = "copyErr" =>
                    /\ fs[d].kind = "file"
                    /\ fs[d].content = <<>>
                    /\ fs[d].mtime = Now
                    /\ fs[d].mode = IF Exists(fs0, d) THEN fs0[d].mode ELSE "0644"
    /\ (Returned /\ ~ConfigError) =>
          /\ ret = "nil"
          /\ \A rel \in Discovered : Processed(SrcOf(rel))
          /\ \A w \in WorkerIds : wpc[w] \in {"unstarted", "exited"}
          /\ wg = 0

\* Create failed for one file, another file was copied, and Start has returned
C11_Witness ==
    /\ Returned
    /\ \E p, q \in AbsPaths : outcome[p] = "createErr" /\ outcome[q] = "copied"

\* C12 as stated: when os.Stat of the source file fails in a worker, only that
\* file is abandoned: the process does not crash, and the worker changes
\* nothing in the filesystem for the file, whether its destination exists
\* or not.
C12_SrcStatFailure ==
    /\ [](spc # "crashed")
    /\ [][\A w \in WorkerIds :
            (srcInfo[w].nil /\ wpc[w] = "mkdir" /\ wpc'[w] # "mkdir") =>
                fs' = fs]_vars

----------------------------------------------------------------------------
(* The worker pool *)

\* the worker holds its destination file open: os.Create succeeded and
\* copyFile has not returned
Writing(w) == wpc[w] \in {"copy", "chtimes", "chmod", "chmodW"}

\* C13: two workers never hold the same destination file open for writing,
\* and no path is handed to the workers more than once
C13_SingleWriter ==
    /\ \A w1, w2 \in WorkerIds :
          (w1 # w2 /\ Writing(w1) /\ Writing(w2)) =>
              DestinationPath(w1) # DestinationPath(w2)
    /\ \A p \in AbsPaths : sent[p] <= 1

\* two workers are writing at the same time, each its own destination file
C13_Witness ==
    \E w1, w2 \in WorkerIds : w1 # w2 /\ Writing(w1) /\ Writing(w2)

\* how many times the path waits in s.fileOps
Queued(p) ==
    IF offered = <<>> THEN 0
    ELSE Cardinality({i \in 1..Len(offered) : offered[i] = p})

\* the workers that hold the path as their job
Holders(p) == {w \in WorkerIds : job[w] = p}

\* C14: the walk sends one job for each file it finds and none for a
\* directory or for the root; a job is received by one worker, once, and is
\* either being processed by that worker or has been processed; when Start
\* has returned, every job was received and processed: closing the channel
\* loses none
C14_JobAccounting ==
    /\ \A p \in AbsPaths :
          /\ Queued(p) + sent[p] =
                 (IF IsUnder(opts.SourcePath, p) /\
                     Rel(opts.SourcePath, p) \in Discovered
                  THEN 1 ELSE 0)
          /\ sent[p] = 1 =>
                 \/ outcome[p] = "pending" /\ Cardinality(Holders(p)) = 1
                 \/ Processed(p) /\ Holders(p) = {}
          /\ sent[p] = 0 => outcome[p] = "none" /\ Holders(p) = {}
    /\ closed => offered = <<>>
    /\ (Returned /\ ~ConfigError) =>
          \A rel \in Discovered :
              sent[SrcOf(rel)] = 1 /\ Processed(SrcOf(rel))

\* the channel is closed while two workers still process the job each received
C14_Witness ==
    /\ closed
    /\ \E p, q \in AbsPaths :
          p # q /\ Cardinality(Holders(p)) = 1 /\ Cardinality(Holders(q)) = 1

\* C15 as stated: with at least one worker every run finishes: the program
\* never comes to a stop before Start has returned.
C15_Termination ==
    opts.Workers >= 1 => (Returned \/ ENABLED Next)

----------------------------------------------------------------------------
(* The sourceFiles map of Start *)

\* the entries WalkDir yields without an error: those that exist below a
\* readable root with every directory above them readable
Yielded ==
    {rel \in RelPaths :
        /\ Exists(fs0, SrcOf(rel))
        /\ Readable(fs0, opts.SourcePath)
        /\ \A i \in 1..(Len(rel) - 1) : Readable(fs0, SrcOf(SubSeq(rel, 1, i)))}

\* the walk has not come to the entry yet
Ahead(rel) ==
    \/ spc \in {"start", "spawn", "walkroot"}
    \/ \E i \in 1..Len(todo) :
          todo[i] = SrcOf(rel) \/ IsUnder(todo[i], SrcOf(rel))

\* C16: sourceFiles never holds the root, holds only entries the walk yielded,
\* holds every yielded entry the walk has come to (all of them once the walk
\* has ended), holds a directory whenever it holds an entry below it, and holds
\* a file before the file is sent to the workers; it is changed only by a step
\* of the walk, never by a step of a worker
C16_SeenSet ==
    /\ [](~ConfigError =>
            /\ Dot \notin sourceFiles
            /\ sourceFiles \subseteq Yielded
            /\ \A rel \in Yielded : rel \in sourceFiles \/ Ahead(rel)
            /\ \A rel \in sourceFiles :
                  Len(rel) > 1 => Dir(rel) \in sourceFiles
            /\ \A p \in AbsPaths :
                  (Queued(p) > 0 \/ sent[p] > 0) =>
                      Rel(opts.SourcePath, p) \in sourceFiles
            /\ spc \in {"close", "wait", "joined", "returned"} =>
                  sourceFiles = Yielded)
    /\ [][sourceFiles' # sourceFiles =>
             \/ spc \in {"walkroot", "walk"} /\ wpc' = wpc /\ job' = job
             \/ spc = "returned" /\ sourceFiles' = {}]_vars

\* the walk has ended and recorded a file, a directory and a file below it
C16_Witness ==
    /\ spc = "close"
    /\ {<<"a">>, <<"d">>, <<"d", "f">>} \subseteq sourceFiles

----------------------------------------------------------------------------
(* The stat of the destination *)

\* os.Stat(destinationPath) of the step fails with an error other than "not
\* exist": the environment made it fail, or a file stands where the path needs
\* a directory
DstStatError(w) ==
    \/ faults' > faults
    \/ \E i \in 1..(Len(DestinationPath(w)) - 1) :
          fs[SubSeq(DestinationPath(w), 1, i)].kind = "file"

\* C17: when the stat of the destination fails with an error other than "not
\* exist", processFile returns for that file: copyFile is not called, the
\* filesystem is not changed and the worker is back at its loop; when the
\* destination does not exist, copyFile is called; and a file given up for
\* the stat error is never copied later in the run
C17_DstStatOutcome ==
    /\ [](\A p \in AbsPaths : outcome[p] = "statDstErr" => p \notin copyCalls)
    /\ [][\A w \in WorkerIds :
            (wpc[w] = "statDst" /\ wpc'[w] # "statDst") =>
                IF DstStatError(w)
                THEN /\ job[w] \notin copyCalls'
                     /\ outcome'[job[w]] = "statDstErr"
                     /\ fs' = fs
                     /\ wpc'[w] = "recv"
                     /\ spc' = spc
                ELSE ~Exists(fs, DestinationPath(w)) =>
                         /\ job[w] \in copyCalls'
                         /\ wpc'[w] = CopyFileEntry(opts) \/ opts.DryRun]_vars

\* one file was given up because a file stands in the place of its destination
\* directory, another file, whose destination was missing, has been copied
C17_Witness ==
    /\ faults = 0
    /\ \E p, q \in AbsPaths :
          /\ outcome[p] = "statDstErr"
          /\ outcome[q] = "copied" /\ ~Exists(fs0, Join(DRoot, Rel(SRoot, q)))

----------------------------------------------------------------------------
(* The decisions of a run as a function of the state it starts from *)

\* a file stands where the destination of the entry needs a directory
DstBlocked(rel) ==
    \E i \in 1..(Len(DstOf(rel)) - 1) :
        fs0[SubSeq(DstOf(rel), 1, i)].kind = "file"

\* what a run started in fs0 does with the file: "copy", "skip" or, when the
\* destination cannot be examined, "error"
Decision(rel) ==
    IF DstBlocked(rel) THEN "error"
    ELSE IF NeedsCopy(FileInfo(fs0[SrcOf(rel)]), fs0[DstOf(rel)]) THEN "copy"
    ELSE "skip"

----------------------------------------------------------------------------
(* The worker count *)

\* the files the walk will send
YieldedFiles == {rel \in Yielded : fs0[SrcOf(rel)].kind = "file"}

\* C19: NewSyncer turns a worker count of 0 into the number of CPUs and keeps
\* a negative one; with a negative count Start starts no worker; if the walk
\* then finds a file, Start stops for ever in the send of the first file, with
\* the channel never closed and Start never returning; if it finds none, Start
\* returns nil
C19_NegativeWorkers ==
    /\ NewSyncerWorkers(0) = NumCPU
    /\ NewSyncerWorkers(-1) = -1
    /\ opts.Workers # 0
    /\ (opts.Workers < 0 /\ ~ConfigError) =>
          /\ spawned = 0 /\ wg = 0
          /\ \A w \in WorkerIds : wpc[w] = "unstarted"
          /\ spc = "send" => (~ENABLED Next /\ sent = [p \in AbsPaths |-> 0])
          /\ YieldedFiles # {} =>
                ~closed /\ spc \notin {"close", "wait", "joined", "returned"}
          /\ Returned => (ret = "nil" /\ YieldedFiles = {})

\* Start, with a negative worker count, is in the send of the first file
C19_Witness == opts.Workers < 0 /\ spc = "send"

----------------------------------------------------------------------------
(* The unbuffered channel *)

\* the files the walk has found and no worker has finished
Undone == {rel \in Discovered : ~Processed(SrcOf(rel))}

\* the workers of the pool
PoolSize == IF opts.Workers >= 1 THEN opts.Workers ELSE 0

\* C20: the files the walk has found and no worker has finished are never more
\* than the workers of the pool and one, the one Start is sending; at most one
\* path waits in the channel, and only while Start is in its send: the walk
\* goes on to the next entry only when a worker has received the path
C20_Rendezvous ==
    /\ Cardinality(Undone) <= PoolSize + 1
    /\ Len(offered) <= 1
    /\ (offered # <<>> /\ spc # "crashed") => spc = "send"
    /\ spc = "send" => offered # <<>>

\* one worker: a file is being processed, Start is in the send of the second
\* file, and the walk has not come to the third
C20_Witness ==
    /\ opts.Workers = 1
    /\ spc = "send"
    /\ Cardinality(Undone) = 2
    /\ \E w \in WorkerIds : InsideProcessFile(w)
    /\ \E rel \in YieldedFiles : rel \notin sourceFiles
====
